---- MODULE Spec2Model ----
(***************************************************************************)
(* The hive ecosystem of src/main.cpp: Bee threads, the Hive release-loop  *)
(* thread, the Winnie thread and the main thread that calls App::End.      *)
(* Every thread is a program counter.  A step is a maximal run of          *)
(* statements that other threads cannot tell from an atomic one: lock      *)
(* acquisitions, then accesses to data the held locks protect, then at     *)
(* most one unprotected access (a stop flag, a notification), then         *)
(* releases.  Since a stop flag is never cleared, the `while              *)
(* (!stop_signal_)` test, the wait predicate and the `if (stop_signal_)`   *)
(* that follow one another read the flag as one.  The places the claims    *)
(* look at stay separate steps: the park                                   *)
(* of every wait, the locked block of ReturnOne, the Size() of the log     *)
(* line of ReleaseOne, the read and the reset of TryAttack, every sleep.   *)
(* Durations (time_to_hunt_, the release interval, kCureTime) are not      *)
(* modelled: the scheduler may run any thread at any time.                 *)
(*                                                                         *)
(* The repository's second program, the dining philosophers of             *)
(* src/unnamed/part_000, is modelled next to it with variables of its own: *)
(* Spec and SpecTwice run main.cpp, PhilSpec runs part_000, and each       *)
(* leaves the other program's variables at their initial values.           *)
(***************************************************************************)
EXTENDS Integers, Sequences, FiniteSets

\* ---- bounds and program constants --------------------------------------
NumBees == 3            \* population handed to App (main.cpp:300 uses 10)
kMaxHoneyCount == 30    \* Hive::kMaxHoneyCount
kAttackHoney == 15      \* honey_count_ >= 15 in Winnie::Run
kWeakHive == 3          \* Size() < 3 in Hive::TryAttack
kAnchor == 1            \* Size() <= 1 / Size() > 1 in Hive::Run

Bees == 1..NumBees
\* owners of a std::mutex: Free, a bee's thread, the Hive thread, Winnie's thread
Free == 0
HiveT == NumBees + 1
WinnieT == NumBees + 2
NoBee == 0              \* the Hive thread holds no popped Bee*

VARIABLES
    bpc,          \* Bee::Run position of every bee thread
    at_home,      \* Bee::at_home_
    bstop,        \* Bee::stop_signal_
    bee_mutex,    \* owner of Bee::bee_mutex_
    queue,        \* Hive::bees_currently_in_hive_
    honey,        \* Hive::honey_count_
    hive_mutex,   \* owner of Hive::hive_mutex_
    queue_mutex,  \* owner of Hive::queue_mutex_
    hstop,        \* Hive::stop_signal_
    hpc,          \* Hive::Run position of the Hive thread
    h_next,       \* local `next` of Hive::ReleaseOne
    wstop,        \* Winnie::stop_signal_
    wpc,          \* Winnie::Run position
    w_sz,         \* value Size() returned inside Hive::TryAttack
    mpc,          \* main thread: position in App::End and the destructors
    m_i           \* loop index of `for (auto &bee: all_bees_)` in Hive::End

vars == <<bpc, at_home, bstop, bee_mutex, queue, honey, hive_mutex, queue_mutex,
          hstop, hpc, h_next, wstop, wpc, w_sz, mpc, m_i>>

beeVars == <<bpc, at_home, bstop, bee_mutex>>
hiveThreadVars == <<hpc, h_next>>
winnieVars == <<wpc, w_sz>>
mainVars == <<mpc, m_i>>

\* ---- the dining philosophers of src/unnamed/part_000: the state -------
\* std::array<Philosopher, 5>, std::array<Fork, 5>
NumPhilosophers == 5
\* eat_count_ is counted up to MaxEat
MaxEat == 1
Phils == 0..(NumPhilosophers - 1)
Forks == 0..(NumPhilosophers - 1)
\* the owner of a Fork::guard_ nobody has locked
Unlocked == NumPhilosophers

\* the forks main binds to philosopher i
LeftIndex(i) == IF i = 0 THEN NumPhilosophers - 1 ELSE i - 1
RightIndex(i) == IF i = NumPhilosophers - 1 THEN 0 ELSE i + 1

VARIABLES
    guard,       \* Fork::guard_ of every fork: the philosopher that owns it
    ppc,         \* position of every worker thread
    eat_count,   \* Philosopher::eat_count_
    finished,    \* std::atomic<bool> finished
    jpc,         \* position of main
    j_i          \* the worker main joins next

philVars == <<guard, ppc, eat_count, finished, jpc, j_i>>
allVars == <<vars, philVars>>

PhilInit ==
    /\ guard = [f \in Forks |-> Unlocked]
    /\ ppc = [p \in Phils |-> "Loop"]
    /\ eat_count = [p \in Phils |-> 0]
    /\ finished = FALSE
    /\ jpc = "Sleeping"
    /\ j_i = 0

\* Hive::Hive pushes bee 0..n-1 in order; every thread is at the top of Run.
Init ==
    /\ bpc = [b \in Bees |-> "Loop"]
    /\ at_home = [b \in Bees |-> TRUE]
    /\ bstop = [b \in Bees |-> FALSE]
    /\ bee_mutex = [b \in Bees |-> Free]
    /\ queue = [i \in 1..NumBees |-> i]
    /\ honey = 0
    /\ hive_mutex = Free
    /\ queue_mutex = Free
    /\ hstop = FALSE
    /\ hpc = "Loop"
    /\ h_next = NoBee
    /\ wstop = FALSE
    /\ wpc = "Loop"
    /\ w_sz = 0
    /\ mpc = "Running"
    /\ m_i = 1
    /\ PhilInit

\* ---- condition variables -----------------------------------------------
\* A thread parked in wait() has pc "Parked".  A notification (or a spurious
\* wake-up) moves it to "Loop": it re-acquires its mutex and evaluates the
\* predicate again, exactly as on entry.  A notification with nobody parked is
\* lost.
Notified(pc) == IF pc = "Parked" THEN "Loop" ELSE pc

\* ---- Bee::Run ------------------------------------------------------------
\* [this] { return !at_home_ || stop_signal_; }
BeeWaitPred(b) == ~at_home[b] \/ bstop[b]

\* BeeWait with the `if (stop_signal_) return;` after the wait left out
BeeWait_NoStopCheck(b) ==
    /\ bpc[b] = "Loop"
    /\ bee_mutex[b] = Free
    /\ IF ~BeeWaitPred(b)
         THEN /\ bpc' = [bpc EXCEPT ![b] = "Park"]
              /\ bee_mutex' = [bee_mutex EXCEPT ![b] = b]
         ELSE IF bstop[b] /\ at_home[b]
                THEN /\ bpc' = [bpc EXCEPT ![b] = "Done"]
                     /\ UNCHANGED bee_mutex
                ELSE /\ bpc' = [bpc EXCEPT ![b] = "Hunt"]
                     /\ bee_mutex' = [bee_mutex EXCEPT ![b] = b]
    /\ UNCHANGED <<at_home, bstop, queue, honey, hive_mutex, queue_mutex,
                   hstop, hiveThreadVars, wstop, winnieVars, mainVars,
                   philVars>>

\* while (!stop_signal_); unique_lock{bee_mutex_} (or the re-acquisition after
\* a wake-up) and the predicate of condition_.wait.  Predicate false: the bee is
\* about to park.  Predicate true: `if (stop_signal_) return;` else the hunt
\* (sleep_for) starts.  at_home_ cannot change while the bee holds bee_mutex_.
BeeWait(b) ==
    /\ bpc[b] = "Loop"
    /\ bee_mutex[b] = Free
    /\ IF ~BeeWaitPred(b)
         THEN /\ bpc' = [bpc EXCEPT ![b] = "Park"]
              /\ bee_mutex' = [bee_mutex EXCEPT ![b] = b]
         ELSE IF bstop[b]
                THEN /\ bpc' = [bpc EXCEPT ![b] = "Done"]
                     /\ UNCHANGED bee_mutex
                ELSE /\ bpc' = [bpc EXCEPT ![b] = "Hunt"]
                     /\ bee_mutex' = [bee_mutex EXCEPT ![b] = b]
    /\ UNCHANGED <<at_home, bstop, queue, honey, hive_mutex, queue_mutex,
                   hstop, hiveThreadVars, wstop, winnieVars, mainVars,
                   philVars>>

\* the predicate was false: wait() releases bee_mutex_ and parks
BeePark(b) ==
    /\ bpc[b] = "Park"
    /\ bee_mutex' = [bee_mutex EXCEPT ![b] = Free]
    /\ bpc' = [bpc EXCEPT ![b] = "Parked"]
    /\ UNCHANGED <<at_home, bstop, queue, honey, hive_mutex, queue_mutex,
                   hstop, hiveThreadVars, wstop, winnieVars, mainVars,
                   philVars>>

\* BeeHuntDone with the `at_home_ = true` of Bee::Run left out
BeeHuntDone_NoHome(b) ==
    /\ bpc[b] = "Hunt"
    /\ hive_mutex = Free
    /\ hive_mutex' = b
    /\ bpc' = [bpc EXCEPT ![b] = "RetPush"]
    /\ UNCHANGED <<at_home, bstop, bee_mutex, queue, honey, queue_mutex,
                   hstop, hiveThreadVars, wstop, winnieVars, mainVars,
                   philVars>>

\* BeeHuntDone with the unique_lock{hive_mutex_} of ReturnOne left out
BeeHuntDone_NoLock(b) ==
    /\ bpc[b] = "Hunt"
    /\ at_home' = [at_home EXCEPT ![b] = TRUE]
    /\ bpc' = [bpc EXCEPT ![b] = "RetPush"]
    /\ UNCHANGED <<bstop, bee_mutex, queue, honey, hive_mutex, queue_mutex,
                   hstop, hiveThreadVars, wstop, winnieVars, mainVars,
                   philVars>>

\* BeeHuntDone with a test of stop_signal_ after the sleep_for: a stopped bee
\* returns from Run without ReturnOne
BeeHuntDone_Interrupted(b) ==
    /\ bpc[b] = "Hunt"
    /\ hive_mutex = Free
    /\ IF bstop[b]
         THEN /\ bpc' = [bpc EXCEPT ![b] = "Done"]
              /\ bee_mutex' = [bee_mutex EXCEPT ![b] = Free]
              /\ UNCHANGED <<at_home, hive_mutex>>
         ELSE /\ at_home' = [at_home EXCEPT ![b] = TRUE]
              /\ hive_mutex' = b
              /\ bpc' = [bpc EXCEPT ![b] = "RetPush"]
              /\ UNCHANGED bee_mutex
    /\ UNCHANGED <<bstop, queue, honey, queue_mutex,
                   hstop, hiveThreadVars, wstop, winnieVars, mainVars,
                   philVars>>

\* sleep_for(time_to_hunt_) ends; at_home_ = true; owner_->ReturnOne(this)
\* takes unique_lock{hive_mutex_}
BeeHuntDone(b) ==
    /\ bpc[b] = "Hunt"
    /\ hive_mutex = Free
    /\ at_home' = [at_home EXCEPT ![b] = TRUE]
    /\ hive_mutex' = b
    /\ bpc' = [bpc EXCEPT ![b] = "RetPush"]
    /\ UNCHANGED <<bstop, bee_mutex, queue, honey, queue_mutex,
                   hstop, hiveThreadVars, wstop, winnieVars, mainVars,
                   philVars>>

\* ---- Hive::ReturnOne, run by the bee's thread ------------------------------
\* HoneyAfterReturn with the test against kMaxHoneyCount left out
HoneyAfterReturn_NoCap(h) == h + 1

\* if (honey_count_ < kMaxHoneyCount) ++honey_count_;
HoneyAfterReturn(h) == IF h < kMaxHoneyCount THEN h + 1 ELSE h

\* ReturnOne with the honey_count_condition_.notify_one() left out
ReturnOne_NoHoneyNotify(b) ==
    /\ bpc[b] = "RetPush"
    /\ queue' = Append(queue, b)
    /\ honey' = HoneyAfterReturn(honey)
    /\ hive_mutex' = Free
    /\ hpc' = Notified(hpc)
    /\ bee_mutex' = [bee_mutex EXCEPT ![b] = Free]
    /\ bpc' = [bpc EXCEPT ![b] = "Loop"]
    /\ UNCHANGED <<at_home, bstop, queue_mutex, hstop, h_next, wstop, winnieVars,
                   mainVars, philVars>>

\* push(bee) and the capped increment; the locked block ends;
\* bee_count_condition_.notify_one(); honey_count_condition_.notify_one();
\* the iteration of Bee::Run ends and its unique_lock releases bee_mutex_
ReturnOne(b) ==
    /\ bpc[b] = "RetPush"
    /\ queue' = Append(queue, b)
    /\ honey' = HoneyAfterReturn(honey)
    /\ hive_mutex' = Free
    /\ hpc' = Notified(hpc)
    /\ wpc' = Notified(wpc)
    /\ bee_mutex' = [bee_mutex EXCEPT ![b] = Free]
    /\ bpc' = [bpc EXCEPT ![b] = "Loop"]
    /\ UNCHANGED <<at_home, bstop, queue_mutex, hstop, h_next, wstop, w_sz, mainVars,
                   philVars>>

BeeStep(b) ==
    \/ BeeWait(b)
    \/ BeePark(b)
    \/ BeeHuntDone(b)
    \/ ReturnOne(b)

\* ---- Hive::Size -----------------------------------------------------------
\* Size() takes queue_mutex_, reads bees_currently_in_hive_.size() and releases
\* it.  A caller that holds hive_mutex_ reads the length of the queue: push and
\* pop need hive_mutex_.  It still has to get queue_mutex_.
Size == Len(queue)

\* ---- Hive::Run ------------------------------------------------------------
hiveOther == <<bpc, at_home, bstop, bee_mutex, queue, honey, hstop, wstop,
               winnieVars, mainVars>>

\* NeedWait with `Size() < 1`: the last bee may be released
NeedWait_NoAnchor(sz) == sz < kAnchor

\* if (Size() <= 1) the loop waits
NeedWait(sz) == sz <= kAnchor

\* [this]() { return Size() > 1 || stop_signal_; }
BeeCountPred(sz) == sz > kAnchor \/ hstop

\* while (!stop_signal_); unique_lock{hive_mutex_} (or the re-acquisition
\* after a wake-up); if (Size() <= 1) the predicate of
\* bee_count_condition_.wait.  Predicate false: the loop is about to park.
\* Otherwise `if (stop_signal_) return;` else lock.unlock() and ReleaseOne() is
\* called.
HiveWait ==
    /\ hpc = "Loop"
    /\ hive_mutex = Free
    /\ queue_mutex = Free
    /\ IF NeedWait(Size) /\ ~BeeCountPred(Size)
         THEN /\ hpc' = "Park"
              /\ hive_mutex' = HiveT
         ELSE /\ hpc' = IF hstop THEN "Done" ELSE "RelLock"
              /\ UNCHANGED hive_mutex
    /\ UNCHANGED <<queue_mutex, h_next, hiveOther, philVars>>

\* the predicate was false: wait() releases hive_mutex_ and parks
HivePark ==
    /\ hpc = "Park"
    /\ hive_mutex' = Free
    /\ hpc' = "Parked"
    /\ UNCHANGED <<queue_mutex, h_next, hiveOther, philVars>>

\* ---- Hive::ReleaseOne -----------------------------------------------------
\* ReleaseOnePop with the pop() left out
ReleaseOnePop_NoPop ==
    /\ hpc = "RelLock"
    /\ hive_mutex = Free
    /\ h_next' = IF queue # <<>> THEN Head(queue) ELSE NumBees
    /\ hpc' = "RelSize"
    /\ UNCHANGED <<bpc, at_home, bstop, bee_mutex, queue, honey, hive_mutex,
                   queue_mutex, hstop, wstop, winnieVars, mainVars,
                   philVars>>

\* ReleaseOnePop taking the bee at the back of the queue
ReleaseOnePop_Back ==
    /\ hpc = "RelLock"
    /\ hive_mutex = Free
    /\ IF queue # <<>>
         THEN /\ h_next' = queue[Len(queue)]
              /\ queue' = SubSeq(queue, 1, Len(queue) - 1)
         ELSE /\ h_next' \in Bees
              /\ queue' = queue
    /\ hpc' = "RelSize"
    /\ UNCHANGED <<bpc, at_home, bstop, bee_mutex, honey, hive_mutex, queue_mutex,
                   hstop, wstop, winnieVars, mainVars, philVars>>

\* the lambda: unique_lock{hive_mutex_}; next = front(); pop(); return next.
\* front()/pop() of an empty std::queue is undefined: any Bee* may come back.
ReleaseOnePop ==
    /\ hpc = "RelLock"
    /\ hive_mutex = Free
    /\ IF queue # <<>>
         THEN /\ h_next' = Head(queue)
              /\ queue' = Tail(queue)
         ELSE /\ h_next' \in Bees
              /\ queue' = queue
    /\ hpc' = "RelSize"
    /\ UNCHANGED <<bpc, at_home, bstop, bee_mutex, honey, hive_mutex, queue_mutex,
                   hstop, wstop, winnieVars, mainVars, philVars>>

\* the log line calls Size() without hive_mutex_: queue_mutex_ is taken
ReleaseOneSizeEnter ==
    /\ hpc = "RelSize"
    /\ queue_mutex = Free
    /\ queue_mutex' = HiveT
    /\ hpc' = "InRelSize"
    /\ UNCHANGED <<hive_mutex, h_next, hiveOther, philVars>>

\* size() is read, unordered with a push of ReturnOne; the value is only
\* printed.  queue_mutex_ is released.
ReleaseOneSize ==
    /\ hpc = "InRelSize"
    /\ queue_mutex' = Free
    /\ hpc' = "Hunt"
    /\ UNCHANGED <<hive_mutex, h_next, hiveOther, philVars>>

\* Hunt with the condition_.notify_one() left out
Hunt_NoNotify ==
    /\ hpc = "Hunt"
    /\ bee_mutex[h_next] = Free
    /\ at_home' = [at_home EXCEPT ![h_next] = FALSE]
    /\ h_next' = NoBee
    /\ hpc' = "Sleep"
    /\ UNCHANGED <<bpc, bstop, bee_mutex, queue, honey, hive_mutex, queue_mutex,
                   hstop, wstop, winnieVars, mainVars, philVars>>

\* Hunt with the `at_home_ = false` left out
Hunt_KeepsHome ==
    /\ hpc = "Hunt"
    /\ bee_mutex[h_next] = Free
    /\ bpc' = [bpc EXCEPT ![h_next] = Notified(bpc[h_next])]
    /\ h_next' = NoBee
    /\ hpc' = "Sleep"
    /\ UNCHANGED <<at_home, bstop, bee_mutex, queue, honey, hive_mutex, queue_mutex,
                   hstop, wstop, winnieVars, mainVars, philVars>>

\* ---- Bee::Hunt, run by the Hive thread on `next` ----------------------------
\* unique_lock{bee_mutex_}; at_home_ = false; time_to_hunt_ = time; the block
\* ends; condition_.notify_one(); ReleaseOne returns and Run starts its sleep_for
Hunt ==
    /\ hpc = "Hunt"
    /\ bee_mutex[h_next] = Free
    /\ at_home' = [at_home EXCEPT ![h_next] = FALSE]
    /\ bpc' = [bpc EXCEPT ![h_next] = Notified(bpc[h_next])]
    /\ h_next' = NoBee
    /\ hpc' = "Sleep"
    /\ UNCHANGED <<bstop, bee_mutex, queue, honey, hive_mutex, queue_mutex,
                   hstop, wstop, winnieVars, mainVars, philVars>>

\* sleep_for(bee_release_time_) ends
HiveSleepDone ==
    /\ hpc = "Sleep"
    /\ hpc' = "Loop"
    /\ UNCHANGED <<hive_mutex, queue_mutex, h_next, hiveOther, philVars>>

HiveStep ==
    \/ HiveWait
    \/ HivePark
    \/ ReleaseOnePop
    \/ ReleaseOneSizeEnter
    \/ ReleaseOneSize
    \/ Hunt
    \/ HiveSleepDone

\* ---- Winnie::Run ----------------------------------------------------------
winnieOther == <<bpc, at_home, bstop, bee_mutex, queue, hstop, hiveThreadVars,
                 wstop, mainVars>>

\* HoneyPred one unit of honey early
HoneyPred_Early == honey >= kAttackHoney - 1 \/ wstop

\* [this]() { return hive_->honey_count_ >= 15 || stop_signal_; }
HoneyPred == honey >= kAttackHoney \/ wstop

\* while (!stop_signal_); unique_lock{hive_->hive_mutex_} (or the
\* re-acquisition after a wake-up) and the predicate of
\* honey_count_condition_.wait.  Predicate false: Winnie is about to park.
\* Predicate true: `if (stop_signal_) return;` else Attack() is called with the
\* lock held.
WinnieWait ==
    /\ wpc = "Loop"
    /\ hive_mutex = Free
    /\ IF ~HoneyPred
         THEN /\ wpc' = "Park"
              /\ hive_mutex' = WinnieT
         ELSE IF wstop
                THEN /\ wpc' = "Done"
                     /\ UNCHANGED hive_mutex
                ELSE /\ wpc' = "Attack"
                     /\ hive_mutex' = WinnieT
    /\ UNCHANGED <<honey, queue_mutex, w_sz, winnieOther, philVars>>

\* the predicate was false: wait() releases hive_mutex_ and parks
WinniePark ==
    /\ wpc = "Park"
    /\ hive_mutex' = Free
    /\ wpc' = "Parked"
    /\ UNCHANGED <<honey, queue_mutex, w_sz, winnieOther, philVars>>

\* Winnie::Attack logs Size() and calls hive_->TryAttack(), whose
\* `if (Size() < 3)` reads the size of the queue
TryAttackSize ==
    /\ wpc = "Attack"
    /\ queue_mutex = Free
    /\ w_sz' = Size
    /\ wpc' = "TryAttack"
    /\ UNCHANGED <<honey, hive_mutex, queue_mutex, winnieOther,
                   philVars>>

\* HiveIsWeak with `Size() < 2`
HiveIsWeak_Two(sz) == sz < kWeakHive - 1

\* HiveIsWeak with `Size() <= 3`
HiveIsWeak_Inclusive(sz) == sz <= kWeakHive

\* if (Size() < 3)
HiveIsWeak(sz) == sz < kWeakHive

\* TryAttack with the lock.unlock() before Cure() left out
TryAttack_KeepLock ==
    /\ wpc = "TryAttack"
    /\ IF HiveIsWeak(w_sz)
         THEN /\ honey' = 0
              /\ wpc' = "Loop"
              /\ hive_mutex' = Free
         ELSE /\ honey' = honey
              /\ wpc' = "Cure"
              /\ hive_mutex' = hive_mutex
    /\ w_sz' = 0
    /\ UNCHANGED <<queue_mutex, winnieOther, philVars>>

\* Hive::TryAttack: honey_count_ = 0; return true;  Winnie::Run: `continue`
\* ends the iteration and releases the lock.
\* Hive::TryAttack: return false;  Winnie::Run: lock.unlock(); Cure() starts.
TryAttack ==
    /\ wpc = "TryAttack"
    /\ IF HiveIsWeak(w_sz)
         THEN /\ honey' = 0
              /\ wpc' = "Loop"
         ELSE /\ honey' = honey
              /\ wpc' = "Cure"
    /\ w_sz' = 0
    /\ hive_mutex' = Free
    /\ UNCHANGED <<queue_mutex, winnieOther, philVars>>

\* Winnie::Cure: sleep_for(kCureTime) ends
Cure ==
    /\ wpc = "Cure"
    /\ wpc' = "Loop"
    /\ UNCHANGED <<honey, hive_mutex, queue_mutex, w_sz, winnieOther,
                   philVars>>

WinnieStep ==
    \/ WinnieWait
    \/ WinniePark
    \/ TryAttackSize
    \/ TryAttack
    \/ Cure

\* ---- App::End and the destructors, run by the main thread -------------------
\* Hive::End: stop_signal_ = true
HiveEndStop ==
    /\ mpc = "Running"
    /\ hstop' = TRUE
    /\ mpc' = "EndBees"
    /\ m_i' = 1
    /\ UNCHANGED <<beeVars, queue, honey, hive_mutex, queue_mutex, hiveThreadVars,
                   wstop, winnieVars, philVars>>

\* Bee::End of all_bees_[m_i]: stop_signal_ = true; condition_.notify_all()
BeeEnd ==
    /\ mpc = "EndBees"
    /\ m_i <= NumBees
    /\ bstop' = [bstop EXCEPT ![m_i] = TRUE]
    /\ bpc' = [bpc EXCEPT ![m_i] = Notified(bpc[m_i])]
    /\ m_i' = m_i + 1
    /\ UNCHANGED <<at_home, bee_mutex, queue, honey, hive_mutex, queue_mutex, hstop,
                   hiveThreadVars, wstop, winnieVars, mpc, philVars>>

\* Hive::End: bee_count_condition_.notify_all(); honey_count_condition_.notify_all()
HiveEndNotify ==
    /\ mpc = "EndBees"
    /\ m_i > NumBees
    /\ hpc' = Notified(hpc)
    /\ wpc' = Notified(wpc)
    /\ mpc' = "WinnieEnd"
    /\ UNCHANGED <<beeVars, queue, honey, hive_mutex, queue_mutex, hstop, h_next,
                   wstop, w_sz, m_i, philVars>>

\* Winnie::End: stop_signal_ = true; App::End returns
WinnieEnd ==
    /\ mpc = "WinnieEnd"
    /\ wstop' = TRUE
    /\ mpc' = "JoinWinnie"
    /\ UNCHANGED <<beeVars, queue, honey, hive_mutex, queue_mutex, hstop,
                   hiveThreadVars, winnieVars, m_i, philVars>>

\* ~Winnie: this_thread_.join()
JoinWinnie ==
    /\ mpc = "JoinWinnie"
    /\ wpc = "Done"
    /\ mpc' = "JoinHive"
    /\ UNCHANGED <<beeVars, queue, honey, hive_mutex, queue_mutex, hstop,
                   hiveThreadVars, wstop, winnieVars, m_i, philVars>>

\* ~Hive: bee.Finish() for every bee, then this_thread_.join()
JoinHive ==
    /\ mpc = "JoinHive"
    /\ \A b \in Bees : bpc[b] = "Done"
    /\ hpc = "Done"
    /\ mpc' = "Exited"
    /\ UNCHANGED <<beeVars, queue, honey, hive_mutex, queue_mutex, hstop,
                   hiveThreadVars, wstop, winnieVars, m_i, philVars>>

MainStep ==
    \/ HiveEndStop
    \/ BeeEnd
    \/ HiveEndNotify
    \/ WinnieEnd
    \/ JoinWinnie
    \/ JoinHive

\* ---- spurious wake-ups -----------------------------------------------------
\* condition_variable::wait may return without a notification
SpuriousBee(b) ==
    /\ bpc[b] = "Parked"
    /\ bpc' = [bpc EXCEPT ![b] = "Loop"]
    /\ UNCHANGED <<at_home, bstop, bee_mutex, queue, honey, hive_mutex, queue_mutex,
                   hstop, hiveThreadVars, wstop, winnieVars, mainVars,
                   philVars>>

SpuriousHive ==
    /\ hpc = "Parked"
    /\ hpc' = "Loop"
    /\ UNCHANGED <<hive_mutex, queue_mutex, h_next, hiveOther, philVars>>

SpuriousWinnie ==
    /\ wpc = "Parked"
    /\ wpc' = "Loop"
    /\ UNCHANGED <<honey, hive_mutex, queue_mutex, w_sz, winnieOther,
                   philVars>>

\* ---- the dining philosophers of src/unnamed/part_000: the threads -----------
\* while (!finished) { phil.Simulate(); }
WorkerLoop(p) ==
    /\ ppc[p] = "Loop"
    /\ ppc' = [ppc EXCEPT ![p] = IF finished THEN "Done" ELSE "TryLeft"]
    /\ UNCHANGED <<guard, eat_count, finished, jpc, j_i, vars>>

\* std::try_lock calls left_->guard_.try_lock() first.  It fails when the
\* mutex is owned, and std::mutex::try_lock may also fail when it is not;
\* std::try_lock then returns 0 and Simulate returns.
TryLockLeft(p) ==
    /\ ppc[p] = "TryLeft"
    /\ \/ /\ guard[LeftIndex(p)] = Unlocked
          /\ guard' = [guard EXCEPT ![LeftIndex(p)] = p]
          /\ ppc' = [ppc EXCEPT ![p] = "TryRight"]
       \/ /\ ppc' = [ppc EXCEPT ![p] = "Loop"]
          /\ UNCHANGED guard
    /\ UNCHANGED <<eat_count, finished, jpc, j_i, vars>>

\* TryLockRight that keeps the left fork when the right one is not to be had
TryLockRight_KeepsLeft(p) ==
    /\ ppc[p] = "TryRight"
    /\ \/ /\ guard[RightIndex(p)] = Unlocked
          /\ guard' = [guard EXCEPT ![RightIndex(p)] = p]
          /\ ppc' = [ppc EXCEPT ![p] = "Serve"]
       \/ /\ ppc' = [ppc EXCEPT ![p] = "Loop"]
          /\ UNCHANGED guard
    /\ UNCHANGED <<eat_count, finished, jpc, j_i, vars>>

\* then right_->guard_.try_lock(): on success std::try_lock returns -1 and
\* Serve is called; on failure it unlocks the left fork and returns 1.
TryLockRight(p) ==
    /\ ppc[p] = "TryRight"
    /\ \/ /\ guard[RightIndex(p)] = Unlocked
          /\ guard' = [guard EXCEPT ![RightIndex(p)] = p]
          /\ ppc' = [ppc EXCEPT ![p] = "Serve"]
       \/ /\ guard' = [guard EXCEPT ![LeftIndex(p)] = Unlocked]
          /\ ppc' = [ppc EXCEPT ![p] = "Loop"]
    /\ UNCHANGED <<eat_count, finished, jpc, j_i, vars>>

\* Serve: the output, ++eat_count_, left_->Release()
Serve(p) ==
    /\ ppc[p] = "Serve"
    /\ eat_count' = [eat_count EXCEPT
                       ![p] = IF @ < MaxEat THEN @ + 1 ELSE @]
    /\ guard' = [guard EXCEPT ![LeftIndex(p)] = Unlocked]
    /\ ppc' = [ppc EXCEPT ![p] = "RelRight"]
    /\ UNCHANGED <<finished, jpc, j_i, vars>>

\* Serve: right_->Release()
ServeReleaseRight(p) ==
    /\ ppc[p] = "RelRight"
    /\ guard' = [guard EXCEPT ![RightIndex(p)] = Unlocked]
    /\ ppc' = [ppc EXCEPT ![p] = "Loop"]
    /\ UNCHANGED <<eat_count, finished, jpc, j_i, vars>>

PhilStep(p) ==
    \/ WorkerLoop(p)
    \/ TryLockLeft(p)
    \/ TryLockRight(p)
    \/ Serve(p)
    \/ ServeReleaseRight(p)

\* main: sleep_for(5000ms) ends; finished = true
MainFinish ==
    /\ jpc = "Sleeping"
    /\ finished' = TRUE
    /\ jpc' = "Joining"
    /\ UNCHANGED <<guard, ppc, eat_count, j_i, vars>>

\* main: w.join(); philosophers[i].Finish(); ++i
MainJoin ==
    /\ jpc = "Joining"
    /\ j_i < NumPhilosophers
    /\ ppc[j_i] = "Done"
    /\ j_i' = j_i + 1
    /\ UNCHANGED <<guard, ppc, eat_count, finished, jpc, vars>>

\* main: return 0
MainReturn ==
    /\ jpc = "Joining"
    /\ j_i = NumPhilosophers
    /\ jpc' = "Exited"
    /\ UNCHANGED <<guard, ppc, eat_count, finished, j_i, vars>>

PhilNext ==
    \/ \E p \in Phils : PhilStep(p)
    \/ MainFinish
    \/ MainJoin
    \/ MainReturn

\* the program of part_000 alone, every thread scheduled fairly
PhilSpec ==
    /\ Init
    /\ [][PhilNext]_allVars
    /\ \A p \in Phils : WF_allVars(PhilStep(p))
    /\ WF_allVars(MainFinish \/ MainJoin \/ MainReturn)

\* ---- the specification -----------------------------------------------------
\* the steps a fair scheduler takes: every thread that can run eventually runs
Scheduled ==
    \/ \E b \in Bees : BeeStep(b)
    \/ HiveStep
    \/ WinnieStep
    \/ MainStep

Next ==
    \/ Scheduled
    \/ \E b \in Bees : SpuriousBee(b)
    \/ SpuriousHive
    \/ SpuriousWinnie

\* the program of main.cpp alone
Spec == Init /\ [][Next]_allVars

\* ---- derived quantities -----------------------------------------------------
InQueue(b) == \E i \in 1..Len(queue) : queue[i] = b
present_count == Len(queue)
hunting_count == Cardinality({b \in Bees : ~at_home[b]})
\* bees ReleaseOne has popped and Bee::Hunt has not yet directed
Popped == {b \in Bees : b = h_next}
\* bees that have set at_home_ = true and whose push is still to come
Returning == {b \in Bees : bpc[b] = "RetPush"}
AllThreadsDone == (\A b \in Bees : bpc[b] = "Done") /\ hpc = "Done" /\ wpc = "Done"

\* ---- C1 ----------------------------------------------------------------------
\* C1: in every reachable state the honey counter lies in 0..kMaxHoneyCount.
C1_HoneyBounded == 0 <= honey /\ honey <= kMaxHoneyCount

\* a bee is inside ReturnOne with the counter already at the cap
C1_Witness == honey = kMaxHoneyCount /\ \E b \in Bees : bpc[b] = "RetPush"

\* ---- C2 ----------------------------------------------------------------------
\* C2: once App::End has signalled stop, every thread terminates: the system
\* never comes to rest (no thread able to take a step) with a Bee, the Hive loop
\* or Winnie still inside Run.
C2_StopTerminates == mpc # "Running" => (AllThreadsDone \/ ENABLED Scheduled)

\* ---- C3 ----------------------------------------------------------------------
\* C3: in every reachable state the bees in the present-queue plus the bees with
\* at_home_ == false are the whole population.
C3_Population == present_count + hunting_count = NumBees

\* C3 as amended: the bees in the present-queue, the bees with at_home_ == false,
\* the bee ReleaseOne has popped and not yet directed, and the bees between
\* at_home_ = true and their push are the whole population; so the sum of the
\* first two is the population whenever no release and no return is under way.
C3_PopulationInTransit ==
    /\ present_count + hunting_count + Cardinality(Popped) + Cardinality(Returning)
          = NumBees
    /\ (Popped = {} /\ Returning = {}) => present_count + hunting_count = NumBees

\* a release and a return are under way at once
C3_Witness == Popped # {} /\ Returning # {}

\* ---- C4 ----------------------------------------------------------------------
\* C4: ReleaseOne pops only from a queue of at least two bees (from the moment
\* Run has decided to release until the pop), so the queue never holds fewer
\* than one bee.
C4_Anchor ==
    /\ present_count >= kAnchor
    /\ (hpc = "RelLock" => present_count >= kAnchor + 1)

\* ReleaseOne has popped and left exactly the anchor bee
C4_Witness == hpc = "RelSize" /\ present_count = kAnchor

\* ---- C5 ----------------------------------------------------------------------
\* C5: from the moment Winnie wakes on honey_count_ >= 15 without stop, the queue
\* does not change until TryAttack returns, and a TryAttack that returns while
\* the queue holds fewer than 3 bees sets honey_count_ to 0 and returns true
\* (Winnie loops without curing).
C5_WeakHiveRaided ==
    [][/\ wpc \in {"Attack", "TryAttack"} => queue' = queue
       /\ (wpc = "TryAttack" /\ wpc' # wpc /\ present_count < kWeakHive)
             => (honey' = 0 /\ wpc' = "Loop")]_vars

\* TryAttack has read the size of a hive of fewer than 3 bees at the threshold
C5_Witness == wpc = "TryAttack" /\ w_sz < kWeakHive /\ honey >= kAttackHoney

\* ---- C6 ----------------------------------------------------------------------
\* C6: a TryAttack that returns while the queue holds 3 or more bees leaves
\* honey_count_, the queue and every bee as they are, and Winnie is in Cure next.
C6_StrongHiveRepels ==
    [][(wpc = "TryAttack" /\ wpc' # wpc /\ present_count >= kWeakHive)
          => (/\ honey' = honey
              /\ queue' = queue
              /\ at_home' = at_home
              /\ bpc' = bpc
              /\ wpc' = "Cure")]_vars

\* Winnie cures after a raid on a full hive failed
C6_Witness == wpc = "Cure" /\ honey >= kAttackHoney /\ present_count >= kWeakHive

\* ---- C7 ----------------------------------------------------------------------
\* C7: while TryAttack is between its read of the size and its reset (or its
\* return of false), Winnie owns hive_mutex_, no bee is inside the locked block of
\* ReturnOne, and no step changes the queue or (other than the reset) the honey.
C7_RaidAtomic ==
    /\ [](wpc = "TryAttack" =>
            /\ hive_mutex = WinnieT
            /\ w_sz = present_count
            /\ Returning = {})
    /\ [][wpc = "TryAttack" =>
            /\ queue' = queue
            /\ (wpc' = wpc => honey' = honey)]_vars

\* a bee's hunt is over (or about to be) while a raid is between read and reset
C7_Witness == wpc = "TryAttack" /\ \E b \in Bees : bpc[b] = "Hunt"

\* ---- C8 ----------------------------------------------------------------------
\* C8: no thread is inside Size() (owning queue_mutex_, about to read size())
\* while another thread is inside the locked block of ReturnOne about to push.
C8_SizeExcludesMutation == queue_mutex # Free => Returning = {}

\* ---- C9 ----------------------------------------------------------------------
\* C9: a bee is in the present-queue exactly if its at_home_ is true, and no bee
\* is in the queue twice.
NoDuplicates == \A i, j \in 1..Len(queue) : queue[i] = queue[j] => i = j
C9_QueueIffAtHome ==
    /\ NoDuplicates
    /\ \A b \in Bees : InQueue(b) <=> at_home[b]

\* C9 as amended: every bee in the present-queue has at_home_ == true and is in
\* it once; a bee with at_home_ == true is missing from the queue only while
\* ReleaseOne has popped it and not yet directed it, or between its
\* at_home_ = true and its push.
C9_QueueImpliesAtHome ==
    /\ NoDuplicates
    /\ \A b \in Bees :
         /\ InQueue(b) => at_home[b]
         /\ (at_home[b] /\ ~InQueue(b)) => (b \in Popped \/ b \in Returning)

\* a popped bee is still at home, out of the queue, and another is hunting
C9_Witness ==
    /\ h_next # NoBee
    /\ at_home[h_next]
    /\ ~InQueue(h_next)
    /\ hunting_count > 0

\* ---- C10 ---------------------------------------------------------------------
\* C10: whenever the Hive holds a bee to direct (from the pop to Bee::Hunt), that
\* bee's at_home_ is true: it is neither hunting nor directed and not yet back.
C10_HuntOnlyAtHome == h_next # NoBee => (at_home[h_next] /\ bpc[h_next] # "Hunt")

\* Bee::Hunt is about to direct a bee after bees have come back from hunts
C10_Witness == hpc = "Hunt" /\ at_home[h_next] /\ honey >= NumBees

\* ---- App::End called once more ----------------------------------------------
\* every thread has left Run or is parked: nothing moves until a notify
AtRest ==
    /\ \A b \in Bees : bpc[b] \in {"Parked", "Done"}
    /\ hpc \in {"Parked", "Done"}
    /\ wpc \in {"Parked", "Done"}

\* App::End has returned and the threads have come to rest; the caller calls
\* App::End again.  Hive::End: stop_signal_ = true
HiveEndStopAgain ==
    /\ mpc = "JoinWinnie"
    /\ AtRest
    /\ hstop' = TRUE
    /\ mpc' = "EndBeesAgain"
    /\ m_i' = 1
    /\ UNCHANGED <<beeVars, queue, honey, hive_mutex, queue_mutex, hiveThreadVars,
                   wstop, winnieVars, philVars>>

\* Bee::End of all_bees_[m_i]: stop_signal_ = true; condition_.notify_all()
BeeEndAgain ==
    /\ mpc = "EndBeesAgain"
    /\ m_i <= NumBees
    /\ bstop' = [bstop EXCEPT ![m_i] = TRUE]
    /\ bpc' = [bpc EXCEPT ![m_i] = Notified(bpc[m_i])]
    /\ m_i' = m_i + 1
    /\ UNCHANGED <<at_home, bee_mutex, queue, honey, hive_mutex, queue_mutex,
                   hstop, hiveThreadVars, wstop, winnieVars, mpc, philVars>>

\* Hive::End: bee_count_condition_.notify_all(); honey_count_condition_.notify_all()
HiveEndNotifyAgain ==
    /\ mpc = "EndBeesAgain"
    /\ m_i > NumBees
    /\ hpc' = Notified(hpc)
    /\ wpc' = Notified(wpc)
    /\ mpc' = "WinnieEndAgain"
    /\ UNCHANGED <<beeVars, queue, honey, hive_mutex, queue_mutex, hstop, h_next,
                   wstop, w_sz, m_i, philVars>>

\* Winnie::End: stop_signal_ = true; App::End returns and ~App joins
WinnieEndAgain ==
    /\ mpc = "WinnieEndAgain"
    /\ wstop' = TRUE
    /\ mpc' = "JoinWinnie"
    /\ UNCHANGED <<beeVars, queue, honey, hive_mutex, queue_mutex, hstop,
                   hiveThreadVars, winnieVars, m_i, philVars>>

EndAgainStep ==
    \/ HiveEndStopAgain
    \/ BeeEndAgain
    \/ HiveEndNotifyAgain
    \/ WinnieEndAgain

NextTwice == Next \/ EndAgainStep

SpecTwice == Init /\ [][NextTwice]_allVars

\* ---- C11 ---------------------------------------------------------------------
\* C11: for every actor the write of its stop flag is followed by a wake-up on
\* the condition variable it waits on: a bee parked when Bee::End sets its flag
\* is not parked once Bee::End is over, the Hive loop is not parked once
\* Hive::End has notified, and Winnie parked when Winnie::End sets her flag is
\* not parked once Winnie::End is over.
C11_StopWakes ==
    [][/\ \A b \in Bees : (~bstop[b] /\ bstop'[b]) => bpc'[b] # "Parked"
       /\ (mpc = "EndBees" /\ mpc' = "WinnieEnd") => hpc' # "Parked"
       /\ (~wstop /\ wstop') => wpc' # "Parked"]_vars

\* ---- C12 ---------------------------------------------------------------------
\* C12: a bee whose hunt has started is not interrupted by stop: from the hunt
\* it goes only to ReturnOne, with at_home_ true; ReturnOne pushes it and applies
\* the capped increment; and it leaves Run only from the top of its loop, with
\* its stop flag set.
C12_HuntCompletes ==
    [][\A b \in Bees :
         /\ (bpc[b] = "Hunt" /\ bpc'[b] # "Hunt")
               => (bpc'[b] = "RetPush" /\ at_home'[b])
         /\ (bpc[b] = "RetPush" /\ bpc'[b] # "RetPush")
               => /\ bpc'[b] = "Loop"
                  /\ queue' = Append(queue, b)
                  /\ honey' = IF honey + 1 <= kMaxHoneyCount
                                THEN honey + 1 ELSE kMaxHoneyCount
         /\ (bpc[b] # "Done" /\ bpc'[b] = "Done")
               => (bpc[b] = "Loop" /\ bstop[b])]_vars

\* a bee that was hunting when its stop flag was set is inside ReturnOne
C12_Witness == \E b \in Bees : bstop[b] /\ bpc[b] = "RetPush"

\* ---- C13 ---------------------------------------------------------------------
\* C13: App::End called again once the first call has come to rest changes
\* nothing: no step of the second call changes a stop flag, the queue, the
\* honey or the state of an actor, so the final state is that of one call.
\* (A thread the second call wakes finds its flag set and leaves Run, so a
\* change made by the call is a change of the final state.)
C13_StopIdempotent ==
    [][(mainVars' # mainVars /\ (mpc = "EndBeesAgain" \/ mpc' = "EndBeesAgain"
                                    \/ mpc = "WinnieEndAgain"))
        => UNCHANGED <<bstop, hstop, wstop, queue, honey, at_home, bpc, hpc, wpc>>]_vars

\* ---- C14 ---------------------------------------------------------------------
\* C14: each ReturnOne(w) appends w at the back of the queue, sets the honey to
\* min(honey + 1, 30), and wakes the waiter of bee_count_condition_ and the
\* waiter of honey_count_condition_.
C14_ReturnOneEffect ==
    [][\A b \in Bees :
         (bpc[b] = "RetPush" /\ bpc'[b] # "RetPush")
            => /\ queue' = queue \o <<b>>
               /\ honey' = IF honey + 1 < kMaxHoneyCount
                             THEN honey + 1 ELSE kMaxHoneyCount
               /\ hpc' # "Parked"
               /\ wpc' # "Parked"]_vars

\* a bee is about to return at 29 units of honey with the Hive loop parked
C14_Witness ==
    /\ \E b \in Bees : bpc[b] = "RetPush"
    /\ honey = kMaxHoneyCount - 1
    /\ hpc = "Parked"

\* ---- C15 ---------------------------------------------------------------------
\* C15: a ReleaseOne removes the front bee of the queue, so the present count
\* drops by one, and moves that bee and no other from AtHome to Hunting; it
\* changes neither the honey nor any other bee.
C15_ReleaseOneEffect ==
    [][/\ (hpc = "RelLock" /\ hpc' # "RelLock")
            => /\ queue # <<>>
               /\ h_next' = queue[1]
               /\ queue' = Tail(queue)
               /\ Len(queue') = Len(queue) - 1
               /\ honey' = honey
               /\ at_home' = at_home
               /\ bpc' = bpc
       /\ (hpc = "Hunt" /\ hpc' # "Hunt")
            => /\ at_home[h_next]
               /\ ~at_home'[h_next]
               /\ \A b \in Bees \ {h_next} :
                     at_home'[b] = at_home[b] /\ bpc'[b] = bpc[b]
               /\ queue' = queue
               /\ honey' = honey]_vars

\* the first release is over: all bees but one present, one hunting
C15_Witness ==
    /\ hpc = "Sleep"
    /\ present_count = NumBees - 1
    /\ hunting_count = 1
    /\ honey = 0

\* ---- C16 ---------------------------------------------------------------------
\* thread t can take a step of its Run
CanStep(t) ==
    \/ t \in Bees /\ ENABLED BeeStep(t)
    \/ t = HiveT /\ ENABLED HiveStep
    \/ t = WinnieT /\ ENABLED WinnieStep

\* the owners of the mutexes thread t is trying to lock
WaitsFor(t) ==
    (IF t \in Bees
       THEN IF bpc[t] = "Loop" THEN {bee_mutex[t]}
            ELSE IF bpc[t] = "Hunt" THEN {hive_mutex}
            ELSE {}
     ELSE IF t = HiveT
       THEN IF hpc = "Loop" THEN {hive_mutex, queue_mutex}
            ELSE IF hpc = "RelLock" THEN {hive_mutex}
            ELSE IF hpc = "RelSize" THEN {queue_mutex}
            ELSE IF hpc = "Hunt" THEN {bee_mutex[h_next]}
            ELSE {}
     ELSE IF wpc = "Loop" THEN {hive_mutex}
          ELSE IF wpc = "Attack" THEN {queue_mutex}
          ELSE {}) \ {Free}

\* thread t can take a step, or waits for a mutex whose owner can proceed
RECURSIVE CanProceed(_, _)
CanProceed(t, n) ==
    \/ CanStep(t)
    \/ n > 0 /\ \E u \in WaitsFor(t) : CanProceed(u, n - 1)

\* C16: before its stop flag is set no actor is parked while its wait predicate
\* holds, and it is never stuck: with more than one bee present the Hive loop
\* is on its way to a release, with 15 units of honey Winnie is on her way to a
\* raid attempt, and a directed bee is on its way back; each can take a step,
\* or waits for a mutex whose owner can.
C16_NoMissedWakeup ==
    /\ (Len(queue) > kAnchor /\ ~hstop)
          => (hpc \notin {"Parked", "Done"} /\ CanProceed(HiveT, NumBees + 2))
    /\ (honey >= kAttackHoney /\ ~wstop)
          => (wpc \notin {"Parked", "Done"} /\ CanProceed(WinnieT, NumBees + 2))
    /\ \A b \in Bees :
          (~at_home[b] /\ ~bstop[b])
             => (bpc[b] \notin {"Parked", "Done"} /\ CanProceed(b, NumBees + 2))

\* a hunting bee waits for hive_mutex_, which Winnie owns, who waits for
\* queue_mutex_, which the Hive loop owns inside Size()
C16_Witness ==
    /\ mpc = "Running"
    /\ honey >= kAttackHoney
    /\ wpc = "Attack"
    /\ hpc = "InRelSize"
    /\ \E b \in Bees : bpc[b] = "Hunt"

\* ---- C17 ---------------------------------------------------------------------
\* C17: Winnie in Cure holds neither hive_mutex_ nor queue_mutex_, and the Hive
\* loop in its sleep between releases holds no mutex at all.
C17_NoLockWhileSleeping ==
    /\ wpc = "Cure" => (hive_mutex # WinnieT /\ queue_mutex # WinnieT)
    /\ hpc = "Sleep" => /\ hive_mutex # HiveT
                        /\ queue_mutex # HiveT
                        /\ \A b \in Bees : bee_mutex[b] # HiveT

\* a bee is inside ReturnOne while Winnie cures and the Hive loop sleeps
C17_Witness ==
    /\ wpc = "Cure"
    /\ hpc = "Sleep"
    /\ \E b \in Bees : hive_mutex = b

\* ---- C18 ---------------------------------------------------------------------
\* C18: TryAttack is only called with at least 15 units of honey, and a raid
\* leaves the honey at 0, from where only ReturnOne raises it, by one per call:
\* 15 calls of ReturnOne lie between two raids.
C18_RaidsPaced ==
    /\ [](wpc \in {"Attack", "TryAttack"} => honey >= kAttackHoney)
    /\ [][/\ (wpc = "TryAttack" /\ honey' # honey) => honey' = 0
          /\ honey' > honey
               => /\ honey' = honey + 1
                  /\ \E b \in Bees : /\ bpc[b] = "RetPush"
                                     /\ bpc'[b] = "Loop"
                                     /\ queue' = Append(queue, b)]_vars

\* Winnie calls TryAttack at exactly 15 units
C18_Witness == wpc = "TryAttack" /\ honey = kAttackHoney

\* ---- C19 ---------------------------------------------------------------------
\* C19: with Hive::stop_signal_ set, the Hive loop does not commit to another
\* ReleaseOne: at most the one it had committed to when the flag was set is
\* started.  A bee whose own flag is set and that is at the top of its loop
\* leaves Run; a bee that left Run stays out of the queue and changes no honey.
C19_LateRelease ==
    /\ [][/\ (hstop /\ hpc # "RelLock") => hpc' # "RelLock"
          /\ \A b \in Bees :
               /\ (bstop[b] /\ bpc[b] = "Loop" /\ bpc'[b] # "Loop")
                     => bpc'[b] = "Done"
               /\ bpc[b] = "Done"
                     => /\ bpc'[b] = "Done"
                        /\ at_home'[b] = at_home[b] \/ h_next = b]_vars
    /\ [](\A b \in Bees : (bpc[b] = "Done" /\ ~at_home[b]) => ~InQueue(b))

\* a bee directed after the stop has left Run without hunting
C19_Witness ==
    \E b \in Bees : hstop /\ bpc[b] = "Done" /\ ~at_home[b] /\ ~InQueue(b)

\* ---- C20 ---------------------------------------------------------------------
\* the forks philosopher p owns, and the two forks bound to it
Holds(p) == {f \in Forks : guard[f] = p}
MyForks(p) == {LeftIndex(p), RightIndex(p)}

\* a philosopher eats only with both its forks, so two philosophers that share
\* a fork never eat at once
EatsWithBoth ==
    /\ \A p \in Phils : ppc[p] = "Serve" => Holds(p) = MyForks(p)
    /\ \A p, q \in Phils :
          (p # q /\ MyForks(p) \cap MyForks(q) # {})
             => ~(ppc[p] = "Serve" /\ ppc[q] = "Serve")

\* threads that have terminated own no fork, and main returns only after all
\* five have
TerminatesClean ==
    /\ \A p \in Phils : ppc[p] = "Done" => Holds(p) = {}
    /\ jpc = "Exited" => /\ \A p \in Phils : ppc[p] = "Done"
                         /\ \A f \in Forks : guard[f] = Unlocked

\* C20 as the spec states it: outside std::try_lock a philosopher owns both its
\* forks or none; it eats only with both; terminated threads leave all forks
\* released.
C20_BothOrNeither ==
    /\ \A p \in Phils :
          ppc[p] \notin {"TryLeft", "TryRight"}
             => (Holds(p) = {} \/ Holds(p) = MyForks(p))
    /\ EatsWithBoth
    /\ TerminatesClean

\* C20: outside std::try_lock and outside the two Release calls of Serve a
\* philosopher owns both its forks or none; between the two Release calls it
\* owns its right fork only; a philosopher that owns a fork is never blocked;
\* it eats only with both forks; once finished is set every worker terminates
\* and all five forks are released.
C20_Philosophers ==
    /\ [](\A p \in Phils :
            /\ ppc[p] \notin {"TryLeft", "TryRight", "RelRight"}
                  => (Holds(p) = {} \/ Holds(p) = MyForks(p))
            /\ ppc[p] = "RelRight" => Holds(p) = {RightIndex(p)}
            /\ Holds(p) # {} => ENABLED PhilStep(p))
    /\ []EatsWithBoth
    /\ []TerminatesClean
    /\ finished ~> (/\ \A p \in Phils : ppc[p] = "Done"
                    /\ \A f \in Forks : guard[f] = Unlocked)

\* finished is set while one philosopher eats and another, between its two
\* Release calls, has already lost its left fork to a third
C20_Witness ==
    /\ finished
    /\ \E p, q, r \in Phils :
          /\ ppc[p] = "Serve"
          /\ ppc[q] = "RelRight"
          /\ r # q
          /\ guard[LeftIndex(q)] = r

====
